---- MODULE Spec2Model ----
(***************************************************************************)
(* The dam_monitor tool of src/main.py: four query actions (list_all,      *)
(* get_dam, check_alerts, compare) over a JSON feed fetched from upstream  *)
(* with one HTTP GET per fetch helper call.                                *)
(*                                                                         *)
(* Feed strings are sequences of one-character strings, so that the two    *)
(* numeric conversions of the code (the isdigit screen of the alert code   *)
(* and float() of compare) are computed character by character.  Numbers   *)
(* are exact decimal fractions [num, den], den a power of ten.             *)
(***************************************************************************)
EXTENDS Integers, Sequences, FiniteSets, TLC

VARIABLES feed, lastGood, cmp, result

vars == <<feed, lastGood, cmp, result>>

(***************************************************************************)
(* Bounds of the model.                                                    *)
(***************************************************************************)
\* Longest reading history of one dam.
MaxReadings == 2
\* Number of times upstream republishes the feed document.
MaxVer == 2

(***************************************************************************)
(* Strings and the two numeric conversions.                                *)
(***************************************************************************)
Digits == <<"0", "1", "2", "3", "4", "5", "6", "7", "8", "9">>

IsDigitChar(c) == \E i \in 1..Len(Digits) : Digits[i] = c

DigitVal(c) == (CHOOSE i \in 1..Len(Digits) : Digits[i] = c) - 1

\* str.isdigit(): non-empty and every character a digit.
IsDigit(s) == Len(s) > 0 /\ \A i \in 1..Len(s) : IsDigitChar(s[i])

HasDot(s) == \E i \in 1..Len(s) : s[i] = "."

FirstDot(s) == CHOOSE i \in 1..Len(s) : s[i] = "." /\ \A j \in 1..(i - 1) : s[j] # "."

\* s.replace('.', '', 1): the first dot removed, if there is one.
ReplaceFirstDot(s) ==
    IF HasDot(s)
    THEN SubSeq(s, 1, FirstDot(s) - 1) \o SubSeq(s, FirstDot(s) + 1, Len(s))
    ELSE s

\* The screen in front of every float() of the alert code.
LooksNumeric(s) == IsDigit(ReplaceFirstDot(s))

RECURSIVE Pow10(_)
Pow10(n) == IF n = 0 THEN 1 ELSE 10 * Pow10(n - 1)

RECURSIVE DigitsValue(_)
DigitsValue(s) ==
    IF Len(s) = 0 THEN 0
    ELSE 10 * DigitsValue(SubSeq(s, 1, Len(s) - 1)) + DigitVal(s[Len(s)])

\* float() of an unsigned decimal literal: digits with at most one dot.
UnsignedValue(s) ==
    [num |-> DigitsValue(ReplaceFirstDot(s)),
     den |-> IF HasDot(s) THEN Pow10(Len(s) - FirstDot(s)) ELSE 1]

IsSign(c) == c = "-" \/ c = "+"

\* Whether float(s) returns rather than raising ValueError.
FloatParses(s) ==
    IF Len(s) > 0 /\ IsSign(s[1]) THEN LooksNumeric(Tail(s)) ELSE LooksNumeric(s)

\* float(s), for a string float() accepts.
FloatOf(s) ==
    IF Len(s) > 0 /\ IsSign(s[1])
    THEN LET u == UnsignedValue(Tail(s))
         IN  [num |-> IF s[1] = "-" THEN 0 - u.num ELSE u.num, den |-> u.den]
    ELSE UnsignedValue(s)

Geq(a, b) == a.num * b.den >= b.num * a.den

Gt(a, b) == a.num * b.den > b.num * a.den

Abs(n) == IF n < 0 THEN 0 - n ELSE n

\* abs(a - b)
AbsDiff(a, b) == [num |-> Abs(a.num * b.den - b.num * a.den), den |-> a.den * b.den]

\* The value used for a threshold that fails the screen.
NoThreshold == 999

\* The value used for a water level that fails the screen.
NoLevel == 0

ThresholdOf(s) == IF LooksNumeric(s) THEN FloatOf(s) ELSE [num |-> NoThreshold, den |-> 1]

LevelOf(s) == IF LooksNumeric(s) THEN FloatOf(s) ELSE [num |-> NoLevel, den |-> 1]

(***************************************************************************)
(* The feed document: {"dams": [{id, name, blueLevel, orangeLevel,         *)
(* redLevel, data: [{waterLevel, storagePercentage, inflow,                *)
(* totalOutflow}, ...]}, ...]}.  The fields the handlers only print        *)
(* (officialName, FRL, date, liveStorage, powerHouseDischarge,             *)
(* spillwayRelease, rainfall) are left out.                                *)
(***************************************************************************)
DamIds == <<"idukki", "mullaperiyar">>

\* An id no document holds, and the absent argument (None or "").
GhostId == "ghost"

NoId == ""

KnownIds == {DamIds[i] : i \in 1..Len(DamIds)}

IdArgs == KnownIds \cup {GhostId, NoId}

Metrics == {"waterLevel", "storagePercentage", "inflow", "totalOutflow"}

NoMetric == ""

DamName(id) == IF id = "idukki" THEN "Idukki" ELSE "Mullaperiyar"

NA == <<"N", "/", "A">>

ThresholdStrs == {<<"5">>, <<"7">>, NA}

LevelStrs == {<<"5">>, <<"6">>, <<"1", "0", "0", "0">>, NA}

MetricStrs == {<<"6">>, <<"6", ".", "0">>, <<"-", "5">>, NA}

\* An older reading of a history; only the last reading is the current one.
OldReading ==
    [waterLevel |-> <<"9", "9", "9">>, storagePercentage |-> <<"9", "0">>,
     inflow |-> <<"1">>, totalOutflow |-> <<"2">>]

RECURSIVE OldPrefix(_)
OldPrefix(n) == IF n = 0 THEN <<>> ELSE <<OldReading>> \o OldPrefix(n - 1)

\* Histories of at most MaxReadings readings ending in a reading of `latest`.
DataOver(latest) ==
    {<<>>} \cup {OldPrefix(n) \o <<r>> : n \in 0..(MaxReadings - 1), r \in latest}

DamsOver(id, thresholds, latest) ==
    {[id |-> id, name |-> DamName(id), blueLevel |-> b, orangeLevel |-> o,
      redLevel |-> r, data |-> d] :
        b \in thresholds, o \in thresholds, r \in thresholds, d \in DataOver(latest)}

\* Documents holding each dam of DamIds at most once, in the order of DamIds:
\* the first from `first`, the second from `second`.
DocsOver(first, second) ==
    {<<>>}
    \cup {<<a>> : a \in first}
    \cup {<<b>> : b \in second}
    \cup {<<a, b>> : a \in first, b \in second}

AlertReadings ==
    {[waterLevel |-> l, storagePercentage |-> <<"7", "1", ".", "2">>,
      inflow |-> <<"6">>, totalOutflow |-> <<"7">>] : l \in LevelStrs}

\* The first dam with every combination of thresholds, the second with one.
AlertDocs ==
    DocsOver(DamsOver(DamIds[1], ThresholdStrs, AlertReadings),
             DamsOver(DamIds[2], {<<"7">>}, AlertReadings))

CompareReadings ==
    {[waterLevel |-> w, storagePercentage |-> NA, inflow |-> <<"6">>,
      totalOutflow |-> <<"7">>] : w \in MetricStrs}

SecondReadings ==
    {[waterLevel |-> w, storagePercentage |-> <<"7", "1", ".", "2">>,
      inflow |-> <<"6", ".", "0">>, totalOutflow |-> <<"-", "5">>] : w \in MetricStrs}

CompareDocs ==
    DocsOver(DamsOver(DamIds[1], {<<"7">>}, CompareReadings),
             DamsOver(DamIds[2], {<<"7">>}, SecondReadings))

(***************************************************************************)
(* The fetch helpers.  `ok` is whether the HTTP GET succeeds.              *)
(***************************************************************************)
\* fetch_all_dams_from_api
FetchAll(ok) == IF ok THEN feed.dams ELSE <<>>

\* The search loop falling back to the first dam when no id matches.
FindDamOrFirst(dams, id) ==
    IF \E i \in 1..Len(dams) : dams[i].id = id
    THEN LET k == CHOOSE i \in 1..Len(dams) :
                      dams[i].id = id /\ \A j \in 1..(i - 1) : dams[j].id # id
         IN  <<dams[k]>>
    ELSE IF Len(dams) > 0 THEN <<dams[1]>> ELSE <<>>

\* The search loop of fetch_dam_data_from_api: the first dam with the id, as
\* a sequence of one dam, or the empty dict, as the empty sequence.
FindDam(dams, id) ==
    IF \E i \in 1..Len(dams) : dams[i].id = id
    THEN LET k == CHOOSE i \in 1..Len(dams) :
                      dams[i].id = id /\ \A j \in 1..(i - 1) : dams[j].id # id
         IN  <<dams[k]>>
    ELSE <<>>

\* fetch_dam_data_from_api
FetchDam(ok, id) == IF ok THEN FindDam(feed.dams, id) ELSE <<>>

FetchState(ok) == IF ok THEN "ok" ELSE "failed"

\* dam["data"][-1] raises IndexError on an empty history.
HasLatest(dam) == Len(dam.data) > 0

Latest(dam) == dam.data[Len(dam.data)]

(***************************************************************************)
(* list_all                                                                *)
(***************************************************************************)
ListLine(dam) ==
    [id |-> dam.id, name |-> dam.name, waterLevel |-> Latest(dam).waterLevel,
     storagePercentage |-> Latest(dam).storagePercentage]

RECURSIVE ListLines(_)
ListLines(dams) ==
    IF Len(dams) = 0 THEN <<>> ELSE <<ListLine(Head(dams))>> \o ListLines(Tail(dams))

ListAllResult(ok) ==
    LET dams == FetchAll(ok)
    IN  IF \E i \in 1..Len(dams) : ~HasLatest(dams[i])
        THEN [op |-> "list_all", kind |-> "fault", fetch |-> FetchState(ok),
              snap |-> dams, lines |-> <<>>]
        ELSE [op |-> "list_all", kind |-> "overview", fetch |-> FetchState(ok),
              snap |-> dams, lines |-> ListLines(dams)]

(***************************************************************************)
(* check_alerts                                                            *)
(***************************************************************************)
\* The if/elif chain over the converted values.
Classify(dam) ==
    LET water_level  == LevelOf(Latest(dam).waterLevel)
        blue_level   == ThresholdOf(dam.blueLevel)
        orange_level == ThresholdOf(dam.orangeLevel)
        red_level    == ThresholdOf(dam.redLevel)
    IN  IF Geq(water_level, red_level) THEN "Red"
        ELSE IF Geq(water_level, orange_level) THEN "Orange"
        ELSE IF Geq(water_level, blue_level) THEN "Blue"
        ELSE "None"

AlertLine(dam, sev) ==
    [sev |-> sev, name |-> dam.name, level |-> LevelOf(Latest(dam).waterLevel)]

\* The loop body with three independent ifs in place of the if/elif chain.
AlertLinesIndependentIfs(dam) ==
    LET water_level == LevelOf(Latest(dam).waterLevel)
    IN  (IF Geq(water_level, ThresholdOf(dam.redLevel))
         THEN <<AlertLine(dam, "Red")>> ELSE <<>>)
        \o (IF Geq(water_level, ThresholdOf(dam.orangeLevel))
            THEN <<AlertLine(dam, "Orange")>> ELSE <<>>)
        \o (IF Geq(water_level, ThresholdOf(dam.blueLevel))
            THEN <<AlertLine(dam, "Blue")>> ELSE <<>>)

\* The lines one pass of the loop body appends to alerts.
AlertLinesOf(dam) ==
    IF Classify(dam) = "None" THEN <<>> ELSE <<AlertLine(dam, Classify(dam))>>

RECURSIVE Alerts(_)
Alerts(dams) ==
    IF Len(dams) = 0 THEN <<>> ELSE AlertLinesOf(Head(dams)) \o Alerts(Tail(dams))

CheckAlertsResult(ok) ==
    LET dams == FetchAll(ok)
    IN  IF \E i \in 1..Len(dams) : ~HasLatest(dams[i])
        THEN [op |-> "check_alerts", kind |-> "fault", fetch |-> FetchState(ok),
              snap |-> dams, lines |-> <<>>]
        ELSE [op |-> "check_alerts",
              kind |-> IF Len(Alerts(dams)) > 0 THEN "alerts" ELSE "no_alerts",
              fetch |-> FetchState(ok), snap |-> dams, lines |-> Alerts(dams)]

(***************************************************************************)
(* get_dam                                                                 *)
(***************************************************************************)
\* The banner appended to the detail block.
Banner(dam) ==
    LET water_level  == LevelOf(Latest(dam).waterLevel)
        orange_level == ThresholdOf(dam.orangeLevel)
        red_level    == ThresholdOf(dam.redLevel)
    IN  IF Geq(water_level, red_level) THEN "Red"
        ELSE IF Geq(water_level, orange_level) THEN "Orange"
        ELSE "None"

GetDamResult(id, ok) ==
    IF id = NoId
    THEN [op |-> "get_dam", kind |-> "invalid_argument", id |-> id, fetch |-> "none",
          snap |-> <<>>, read |-> <<>>, banner |-> "None"]
    ELSE LET dam_data == FetchDam(ok, id)
             seen     == [op |-> "get_dam", id |-> id, fetch |-> FetchState(ok),
                          snap |-> FetchAll(ok)]
         IN  IF Len(dam_data) = 0
             THEN seen @@ [kind |-> "not_found", read |-> <<>>, banner |-> "None"]
             ELSE IF ~HasLatest(dam_data[1])
             THEN seen @@ [kind |-> "fault", read |-> <<>>, banner |-> "None"]
             ELSE seen @@ [kind |-> "detail", read |-> <<Latest(dam_data[1])>>,
                           banner |-> Banner(dam_data[1])]

(***************************************************************************)
(* compare                                                                 *)
(***************************************************************************)
Unit(metric) ==
    IF metric = "waterLevel" THEN "meters"
    ELSE IF metric = "storagePercentage" THEN "%"
    ELSE "m3/s"

\* dam1_latest[metric]
MetricValue(reading, metric) ==
    IF metric = "waterLevel" THEN reading.waterLevel
    ELSE IF metric = "storagePercentage" THEN reading.storagePercentage
    ELSE IF metric = "inflow" THEN reading.inflow
    ELSE reading.totalOutflow

\* The try block with >= in place of > in its first test.
ConclusionGeq(name1, value1, name2, value2) ==
    IF FloatParses(value1) /\ FloatParses(value2)
    THEN LET val1 == FloatOf(value1)
             val2 == FloatOf(value2)
             diff == AbsDiff(val1, val2)
         IN  IF Geq(val1, val2) THEN [delta |-> <<diff>>, leader |-> name1]
             ELSE IF Gt(val2, val1) THEN [delta |-> <<diff>>, leader |-> name2]
             ELSE [delta |-> <<diff>>, leader |-> "Tie"]
    ELSE [delta |-> <<>>, leader |-> "Unknown"]

\* The try block: the difference and the dam named as higher, as a record
\* [delta: the empty sequence or one number, leader: a dam's name, "Tie" or
\* "Unknown"].
Conclusion(name1, value1, name2, value2) ==
    IF FloatParses(value1) /\ FloatParses(value2)
    THEN LET val1 == FloatOf(value1)
             val2 == FloatOf(value2)
             diff == AbsDiff(val1, val2)
         IN  IF Gt(val1, val2) THEN [delta |-> <<diff>>, leader |-> name1]
             ELSE IF Gt(val2, val1) THEN [delta |-> <<diff>>, leader |-> name2]
             ELSE [delta |-> <<diff>>, leader |-> "Tie"]
    ELSE [delta |-> <<>>, leader |-> "Unknown"]

\* The part of compare after both fetches: dam1 and dam2 are what the two
\* fetches returned.
CompareOutcome(dam1, dam2, metric) ==
    IF Len(dam1) = 0 \/ Len(dam2) = 0
    THEN [kind |-> "not_found", read |-> <<>>, value1 |-> <<>>, value2 |-> <<>>,
          unit |-> "", delta |-> <<>>, leader |-> "Unknown"]
    ELSE IF ~HasLatest(dam1[1]) \/ ~HasLatest(dam2[1])
    THEN [kind |-> "fault", read |-> <<>>, value1 |-> <<>>, value2 |-> <<>>,
          unit |-> "", delta |-> <<>>, leader |-> "Unknown"]
    ELSE LET dam1_value == MetricValue(Latest(dam1[1]), metric)
             dam2_value == MetricValue(Latest(dam2[1]), metric)
             c == Conclusion(dam1[1].name, dam1_value, dam2[1].name, dam2_value)
         IN  [kind |-> "comparison", read |-> <<Latest(dam1[1]), Latest(dam2[1])>>,
              value1 |-> dam1_value, value2 |-> dam2_value, unit |-> Unit(metric),
              delta |-> c.delta, leader |-> c.leader]

CompareArgsMissing(id1, id2, metric) == id1 = NoId \/ id2 = NoId \/ metric = NoMetric

(***************************************************************************)
(* State.  feed: the document upstream serves now, with the number of the  *)
(* publication.  lastGood: what the most recent successful fetch returned  *)
(* (history; the program keeps no copy).  cmp: a compare between its two   *)
(* fetches.  result: what the last call returned, NoResult while a call    *)
(* is under way.                                                           *)
(***************************************************************************)
NoSnapshot == [some |-> FALSE, dams |-> <<>>]

Fetched(ok) == IF ok THEN [some |-> TRUE, dams |-> feed.dams] ELSE lastGood

Idle == [pc |-> "idle"]

NoResult == [op |-> "none", kind |-> "none", fetch |-> "none"]

ListAll ==
    /\ cmp.pc = "idle"
    /\ \E ok \in BOOLEAN :
          /\ result' = ListAllResult(ok)
          /\ lastGood' = Fetched(ok)
    /\ UNCHANGED <<feed, cmp>>

GetDam(ids) ==
    /\ cmp.pc = "idle"
    /\ \E id \in ids, ok \in BOOLEAN :
          /\ result' = GetDamResult(id, ok)
          /\ lastGood' = IF id = NoId THEN lastGood ELSE Fetched(ok)
    /\ UNCHANGED <<feed, cmp>>

CheckAlerts ==
    /\ cmp.pc = "idle"
    /\ \E ok \in BOOLEAN :
          /\ result' = CheckAlertsResult(ok)
          /\ lastGood' = Fetched(ok)
    /\ UNCHANGED <<feed, cmp>>

\* compare up to and including its first fetch.
CompareBegin(ids, metrics) ==
    /\ cmp.pc = "idle"
    /\ \E id1 \in ids, id2 \in ids, metric \in metrics, ok \in BOOLEAN :
          IF CompareArgsMissing(id1, id2, metric)
          THEN /\ result' = [op |-> "compare", kind |-> "invalid_argument",
                             id1 |-> id1, id2 |-> id2, metric |-> metric,
                             fetch |-> "none"]
               /\ UNCHANGED <<cmp, lastGood>>
          ELSE /\ cmp' = [pc |-> "second", id1 |-> id1, id2 |-> id2, metric |-> metric,
                          fetch1 |-> FetchState(ok), ver1 |-> feed.ver,
                          snap1 |-> FetchAll(ok), dam1 |-> FetchDam(ok, id1)]
               /\ lastGood' = Fetched(ok)
               /\ result' = NoResult
    /\ UNCHANGED feed

\* compare from its second fetch to its return.
CompareFinish ==
    /\ cmp.pc = "second"
    /\ \E ok \in BOOLEAN :
          /\ result' =
                [op |-> "compare", id1 |-> cmp.id1, id2 |-> cmp.id2, metric |-> cmp.metric,
                 fetch |-> IF cmp.fetch1 = "ok" /\ ok THEN "ok" ELSE "failed",
                 fetch1 |-> cmp.fetch1, fetch2 |-> FetchState(ok),
                 ver1 |-> cmp.ver1, ver2 |-> feed.ver,
                 snap1 |-> cmp.snap1, snap2 |-> FetchAll(ok),
                 dam1 |-> cmp.dam1, dam2 |-> FetchDam(ok, cmp.id2)]
                @@ CompareOutcome(cmp.dam1, FetchDam(ok, cmp.id2), cmp.metric)
          /\ lastGood' = Fetched(ok)
    /\ cmp' = Idle
    /\ UNCHANGED feed

\* Upstream publishes a new document.
LiveDam(id, level) ==
    [id |-> id, name |-> DamName(id), blueLevel |-> <<"5">>, orangeLevel |-> <<"7">>,
     redLevel |-> NA, data |-> IF Len(level) = 0 THEN <<>>
                               ELSE <<[waterLevel |-> level,
                                       storagePercentage |-> <<"7", "1", ".", "2">>,
                                       inflow |-> <<"6">>, totalOutflow |-> <<"7">>]>>]

LiveDocs ==
    { <<>>,
      <<LiveDam(DamIds[1], <<"6">>)>>,
      <<LiveDam(DamIds[1], <<"6">>), LiveDam(DamIds[2], <<"8">>)>>,
      <<LiveDam(DamIds[1], <<"8">>), LiveDam(DamIds[2], <<"6">>)>>,
      <<LiveDam(DamIds[1], <<>>), LiveDam(DamIds[2], <<"8">>)>> }

FeedUpdate ==
    /\ feed.ver < MaxVer
    /\ \E d \in LiveDocs : feed' = [ver |-> feed.ver + 1, dams |-> d]
    /\ UNCHANGED <<lastGood, cmp, result>>

InitRest == lastGood = NoSnapshot /\ cmp = Idle /\ result = NoResult

\* Every operation against a feed that upstream republishes.
Init == feed \in {[ver |-> 0, dams |-> d] : d \in LiveDocs} /\ InitRest

Next ==
    \/ ListAll
    \/ GetDam({DamIds[1], GhostId, NoId})
    \/ CheckAlerts
    \/ CompareBegin(KnownIds, {"waterLevel", NoMetric})
    \/ CompareFinish
    \/ FeedUpdate

Spec == Init /\ [][Next]_vars

\* list_all, get_dam and check_alerts against every document of AlertDocs.
InitAlerts == feed \in {[ver |-> 0, dams |-> d] : d \in AlertDocs} /\ InitRest

NextAlerts == ListAll \/ GetDam(IdArgs) \/ CheckAlerts

SpecAlerts == InitAlerts /\ [][NextAlerts]_vars

\* get_dam and compare against every document of CompareDocs.
InitCompare == feed \in {[ver |-> 0, dams |-> d] : d \in CompareDocs} /\ InitRest

NextCompare ==
    \/ GetDam(IdArgs)
    \/ CompareBegin(KnownIds \cup {GhostId}, Metrics)
    \/ CompareFinish

SpecCompare == InitCompare /\ [][NextCompare]_vars

(***************************************************************************)
(* Properties.                                                             *)
(***************************************************************************)
Severities == {"None", "Blue", "Orange", "Red"}

SevRank(sev) == IF sev = "Red" THEN 3 ELSE IF sev = "Orange" THEN 2 ELSE IF sev = "Blue" THEN 1 ELSE 0

SevLevel(dam, sev) ==
    IF sev = "Red" THEN dam.redLevel ELSE IF sev = "Orange" THEN dam.orangeLevel ELSE dam.blueLevel

\* The severities whose threshold the latest water level reaches, level and
\* thresholds taken at the values the alert code converts them to.
MetSeverities(dam) ==
    {sev \in {"Blue", "Orange", "Red"} :
        Geq(LevelOf(Latest(dam).waterLevel), ThresholdOf(SevLevel(dam, sev)))}

IsHighestMet(dam, sev) ==
    /\ sev \in MetSeverities(dam)
    /\ \A other \in MetSeverities(dam) : SevRank(other) <= SevRank(sev)

LinesNaming(lines, name) == {k \in 1..Len(lines) : lines[k].name = name}

SnapIds(dams) == {dams[i].id : i \in 1..Len(dams)}

Classified(dams) ==
    {dams[i].name : i \in {j \in 1..Len(dams) :
                              HasLatest(dams[j]) /\ Classify(dams[j]) # "None"}}

\* C2: for every fetched snapshot, check_alerts names exactly the dams whose
\* classification is not None, and returns the "no alerts" message exactly
\* when there is no such dam.
C2_AlertsAreTheClassified ==
    (result.op = "check_alerts" /\ result.fetch = "ok") =>
        /\ {result.lines[k].name : k \in 1..Len(result.lines)} = Classified(result.snap)
        /\ (result.kind = "no_alerts") <=> (Classified(result.snap) = {})

\* The dam of a snapshot an alert line names.
DamNamed(dams, name) == dams[CHOOSE i \in 1..Len(dams) : dams[i].name = name]

\* C3: a threshold that does not convert never triggers its alert level,
\* however large the water level: every Red, Orange or Blue line of
\* check_alerts, and every Red or Orange banner of get_dam, is for a dam
\* whose threshold of that level converts.
C3_UnparsableNeverTriggers ==
    /\ result.op = "check_alerts" =>
          \A k \in 1..Len(result.lines) :
              LooksNumeric(SevLevel(DamNamed(result.snap, result.lines[k].name),
                                    result.lines[k].sev))
    /\ (result.op = "get_dam" /\ result.kind = "detail" /\ result.banner # "None") =>
          LooksNumeric(SevLevel(FindDam(result.snap, result.id)[1], result.banner))

\* C4: list_all and check_alerts skip a dam without readings and render every
\* other dam; neither raises a fault.
C4_EmptyHistorySkipped ==
    /\ result.op \in {"list_all", "check_alerts"} => result.kind # "fault"
    /\ (result.op = "list_all" /\ result.fetch = "ok") =>
          {result.lines[k].id : k \in 1..Len(result.lines)}
              = {result.snap[i].id : i \in {j \in 1..Len(result.snap) :
                                               HasLatest(result.snap[j])}}

\* C5: once a fetch has succeeded, an operation whose fetch fails is answered
\* from the most recent successfully fetched snapshot.
C5_FailedFetchServesLastGood ==
    ( /\ result.op \in {"list_all", "check_alerts", "get_dam"}
      /\ result.fetch = "failed"
      /\ lastGood.some ) => result.snap = lastGood.dams

\* C6: both dams of one compare come from the same publication of the feed.
C6_NoTornSnapshot ==
    (result.op = "compare" /\ result.kind = "comparison") => result.ver1 = result.ver2

\* C7: when the fetch fails and no snapshot was fetched before, the operation
\* returns a message that describes the fetch failure.
C7_FetchFailureReported ==
    (result.fetch = "failed" /\ ~lastGood.some) => result.kind = "fetch_error"

\* C8: get_dam with an id absent from the fetched snapshot returns NotFound
\* for that id, compare returns NotFound when either id is absent from the
\* snapshot its fetch returned, and neither has indexed a reading.
C8_AbsentIdIsNotFound ==
    /\ ( /\ result.op = "get_dam"
         /\ result.fetch = "ok"
         /\ result.id # NoId
         /\ result.id \notin SnapIds(result.snap) )
       => (result.kind = "not_found" /\ result.read = <<>>)
    /\ ( /\ result.op = "compare"
         /\ result.kind # "invalid_argument"
         /\ result.fetch1 = "ok" /\ result.fetch2 = "ok"
         /\ ( \/ result.id1 \notin SnapIds(result.snap1)
              \/ result.id2 \notin SnapIds(result.snap2) ) )
       => (result.kind = "not_found" /\ result.read = <<>>)

\* C8 witness: compare returned NotFound for an absent second id although its
\* first dam was found and has no readings.
C8_Witness ==
    /\ result.op = "compare"
    /\ result.kind = "not_found"
    /\ result.fetch1 = "ok" /\ result.fetch2 = "ok"
    /\ result.id2 \notin SnapIds(result.snap2)
    /\ Len(result.dam1) = 1
    /\ ~HasLatest(result.dam1[1])

\* C9: compare with its two dams exchanged reports the same delta and names
\* the same dam as higher (or a tie, or no comparison, in both orders).
C9_CompareAntisymmetric ==
    (result.op = "compare" /\ result.kind # "invalid_argument") =>
        LET back == CompareOutcome(result.dam2, result.dam1, result.metric)
        IN  /\ back.kind = result.kind
            /\ back.delta = result.delta
            /\ back.leader = result.leader

\* C9 witness: a compare of two different dams whose values are written
\* differently and convert to the same number.
C9_Witness ==
    /\ result.op = "compare"
    /\ result.kind = "comparison"
    /\ result.id1 # result.id2
    /\ result.value1 # result.value2
    /\ result.leader = "Tie"

\* C10: when the fetch succeeds with no dams, list_all returns a "no dams"
\* message.
C10_EmptyFeedHasOwnMessage ==
    (result.op = "list_all" /\ result.fetch = "ok" /\ result.snap = <<>>)
        => result.kind = "no_dams"

====
